---- MODULE Spec2Model ----
(***************************************************************************)
(* The client-side upload engine of the chunked uploader:                  *)
(*   UploadManager (client/src/services/UploadManager.js), the helpers of  *)
(*   uploadUtils.js, and the two web workers it talks to (upload worker,   *)
(*   hash worker).                                                         *)
(* and the server routes it posts to (server/routes/upload.js, s3.js).     *)
(*                                                                         *)
(* Sizes are counted in units of 128 KiB, so the smallest entry of         *)
(* CHUNK_SIZE_OPTIONS (256 KB) is 2 and a file may end in a short chunk.   *)
(* The clock is abstracted: startTime/endTime are "set or not" and every   *)
(* progress update sees one second elapsed since startTime.                *)
(***************************************************************************)
EXTENDS Integers, Sequences, FiniteSets, Bags, TLC

\* ------------------------------------------------------------------ bounds
\* Files of 1..MaxFileSize units are dropped on the page (chunks of 2 units).
MaxFileSize == 3
\* options.concurrency is drawn from 1..MaxConcurrency (the program offers 1..8).
MaxConcurrency == 2
\* startUpload calls whose initialize request is still unanswered, per upload.
MaxPendingInits == 1
\* The chunk planner is exercised on files of 0..MaxPlanSize units ...
MaxPlanSize == 12
\* ... and chunk sizes of 1..MaxPlanChunkSize units.
MaxPlanChunkSize == 5
\* The two-session specification holds at most MaxSessions uploads.
MaxSessions == 2
\* Files of 1..MaxCleanFileSize units are uploaded in the clean runs.
MaxCleanFileSize == 5
\* The auto-tuned runs upload a file of MaxTuneFileSize units (7 chunks) with
\* a concurrency of MaxTuneConcurrency, so that more than 5 chunks complete.
MaxTuneFileSize == 14
MaxTuneConcurrency == 7
\* The session whose chunks may fail for good has MaxOutcomeFileSize / 2 chunks
\* and as many permits.
MaxOutcomeFileSize == 20
MaxOutcomeConcurrency == 10
\* calculateOptimalChunkSize is called on speeds up to MaxSpeed / 3 units of
\* 128 KiB per second and latencies up to MaxLatency milliseconds.
MaxSpeed == 70
MaxLatency == 450
\* The diagnostics window is followed for MaxAdded addSample calls.
MaxAdded == 12
\* The S3 adapter is followed on a session of MaxParts chunks.
MaxParts == 4
\* The server holds at most MaxServerSessions sessions per route.
MaxServerSessions == 1

FileSizes == 1..MaxFileSize

\* --------------------------------------------------------------- constants
\* UPLOAD_STATUS
PENDING == "pending"
UPLOADING == "uploading"
PAUSED == "paused"
COMPLETED == "completed"
FAILED == "failed"
CANCELLED == "cancelled"

UPLOAD_STATUS == {PENDING, UPLOADING, PAUSED, COMPLETED, FAILED, CANCELLED}

\* The statuses no operation is meant to leave, and the others.
Terminal == {COMPLETED, FAILED, CANCELLED}
NonTerminal == UPLOAD_STATUS \ Terminal

\* STORAGE_TYPES
S3 == "s3"
GOOGLE_DRIVE == "google_drive"
GCS == "gcs"

STORAGE_TYPES == {S3, GOOGLE_DRIVE, GCS}

\* CHUNK_SIZE_OPTIONS, 256 KB .. 16 MB, in units of 128 KiB.
CHUNK_SIZE_OPTIONS == {2, 4, 8, 16, 32, 64, 128}

\* retryCount < 3 in handleChunkUploadError
MaxChunkRetries == 3

\* retryConfig = { maxAttempts: 3, baseDelay: 1000 } of the upload worker
workerMaxAttempts == 3
workerBaseDelay == 1000

\* getRetryConfig: baseDelay and maxDelay, in ms
baseDelay == 1000
maxDelay == 30000
\* NetworkDiagnostics.maxSamples
maxSamples == 10
\* completedChunks.size > 5 gates auto-tuning
AutoTuneMinCompleted == 5

\* The server's limits: maxFileSize (10 GB, in KiB) and the chunk count; the
\* chunkSize it answers when the options give none (1 MiB, in KiB).
maxFileSize == 10485760
maxChunkCount == 10000
defaultChunkSize == 1024

\* JavaScript's null / undefined for the fields that hold a value later.
NoHash == <<>>
NoUrl == <<>>
NoUploadId == 0
NoLastByte == -1
NoDelay == -1

\* ------------------------------------------------------------- arithmetic
Min(a, b) == IF a < b THEN a ELSE b

\* Math.ceil(a / b) for a >= 0, b > 0
Ceil(a, b) == (a + b - 1) \div b

RECURSIVE SumOver(_, _)
\* Array.reduce((sum, x) => sum + f[x], 0) over a finite set of indices
SumOver(f, S) ==
  IF S = {} THEN 0
  ELSE LET x == CHOOSE y \in S : TRUE IN f[x] + SumOver(f, S \ {x})

\* -------------------------------------------------------------- the planner
\* The mutant of generateChunkMetadata: the last chunk is not cut at the file's end.
generateChunkMetadataNoClamp(fileSize, chunkSize, chunkIndex) ==
  LET start == chunkIndex * chunkSize
      end == start + chunkSize
  IN [chunkIndex |-> chunkIndex, start |-> start, end |-> end,
      size |-> end - start, isLast |-> (end = fileSize)]

\* generateChunkMetadata(file, chunkSize, chunkIndex); the Blob slice is the
\* byte range [start, end) itself.
generateChunkMetadata(fileSize, chunkSize, chunkIndex) ==
  LET start == chunkIndex * chunkSize
      end == Min(start + chunkSize, fileSize)
  IN [chunkIndex |-> chunkIndex, start |-> start, end |-> end,
      size |-> end - start, isLast |-> (end = fileSize)]

\* UploadManager.calculateChunks: the plan as an array indexed from 0.
calculateChunks(fileSize, chunkSize) ==
  LET totalChunks == Ceil(fileSize, chunkSize)
      metadata(index) == generateChunkMetadata(fileSize, chunkSize, index)
  IN [index \in 0..(totalChunks - 1) |->
        [chunkIndex |-> metadata(index).chunkIndex,
         start |-> metadata(index).start,
         end |-> metadata(index).end,
         size |-> metadata(index).size,
         isLast |-> metadata(index).isLast,
         status |-> PENDING,
         hash |-> NoHash,
         uploadUrl |-> NoUrl,
         retryCount |-> 0]]

\* ------------------------------------------------------------------- state
VARIABLES
  uploads,         \* this.uploads: the Map's values in insertion order; the id is the position
  samples,         \* this.networkDiagnostics.samples
  initFetches,     \* bag of upload ids: startUpload calls awaiting POST /api/upload/initialize
  finalizeFetches, \* bag of upload ids: finalizeUpload calls awaiting POST /api/upload/finalize
  hashJobs,        \* bag of <<upload, chunkIndex>>: HASH_CHUNK messages the hash worker holds
  hashWaiters,     \* bag of <<upload, chunkIndex>>: uploadChunk calls awaiting their chunk hash
  uploadJobs,      \* bag of <<upload, chunkIndex, uploadUrl>>: UPLOAD_CHUNK messages the upload worker holds
  timers,          \* bag of <<upload, chunkIndex>>: retry timers set by handleChunkUploadError
  fileHashJobs,    \* bag of upload ids: HASH_FILE messages the hash worker holds
  requests,        \* bag of <<endpoint, upload>>: finalize and abort requests sent so far
  fatalErrors,     \* history: the uploads that met a non-retryable error
  liveCancels,     \* history: the uploads cancelled while not terminal and not restarted since
  workerAttempt,   \* upload worker: the loop variable `attempt` of each uploadChunk call that has
                   \* made a fetch, by job (followed only by the runs that go fetch by fetch)
  transfers,       \* history, by <<upload, chunkIndex>>: the PUTs sent for the chunk (see LogPut)
  planInput,       \* the planner's input <<file size, chunk size>>
  planOutput,      \* the planner's result: <<>> before the call, <<chunks>> after
  uploadSessions,  \* server, routes/upload.js: the Map's values in insertion order; the id is the position
  multipartUploads, \* server, routes/s3.js: the Map, from S3 UploadId to its uploadInfo
  s3UploadIds,     \* the number of UploadIds S3 has issued to createMultipartUpload
  response,        \* the last response a server route sent: its route, status and JSON body
  parts,           \* S3Adapter: the uploadChunk results collected for finalizeUpload, as they came
  finalizeParts,   \* S3Adapter.finalizeUpload: <<>> before the call, <<body.parts>> after
  added,           \* history: every sample passed to addSample, in order
  optimalInput,    \* calculateOptimalChunkSize's input <<speed numerator, denominator, latency, file size>>
  optimalOutput    \* calculateOptimalChunkSize's result: <<>> before the call, <<size>> after

vars == <<uploads, samples, initFetches, finalizeFetches, hashJobs, hashWaiters,
          uploadJobs, timers, fileHashJobs, requests, fatalErrors, liveCancels,
          workerAttempt, transfers, planInput, planOutput,
          uploadSessions, multipartUploads, s3UploadIds, response,
          parts, finalizeParts, added, optimalInput, optimalOutput>>

managerVars == <<uploads, samples, initFetches, finalizeFetches, hashJobs,
                 hashWaiters, uploadJobs, timers, fileHashJobs, requests>>

planVars == <<planInput, planOutput>>

workerVars == <<workerAttempt, transfers>>

serverVars == <<uploadSessions, multipartUploads, s3UploadIds, response>>

\* The state of the runs that exercise one function or class on its own.
pureVars == <<parts, finalizeParts, added, optimalInput, optimalOutput>>

\* The manager's mutable state as one value, threaded through the handlers.
Manager ==
  [uploads |-> uploads, samples |-> samples, finalizeFetches |-> finalizeFetches,
   hashJobs |-> hashJobs, hashWaiters |-> hashWaiters, uploadJobs |-> uploadJobs,
   timers |-> timers, requests |-> requests]

Becomes(m) ==
  /\ uploads' = m.uploads
  /\ samples' = m.samples
  /\ finalizeFetches' = m.finalizeFetches
  /\ hashJobs' = m.hashJobs
  /\ hashWaiters' = m.hashWaiters
  /\ uploadJobs' = m.uploadJobs
  /\ timers' = m.timers
  /\ requests' = m.requests

One(x) == SetToBag({x})

UploadIds == 1..Len(uploads)

ChunkCount(up) == Cardinality(DOMAIN up.chunks)

\* --------------------------------------------------------- NetworkDiagnostics
\* addSample without the shift of the oldest sample.
addSampleNoShift(window, speed, latency) ==
  Append(window, [speed |-> speed, latency |-> latency])

\* addSample(speed, latency); the timestamp is not kept.
addSample(window, speed, latency) ==
  LET pushed == Append(window, [speed |-> speed, latency |-> latency])
  IN IF Len(pushed) > maxSamples THEN Tail(pushed) ELSE pushed

SumSpeed(window) == SumOver([k \in 1..Len(window) |-> window[k].speed], 1..Len(window))
SumLatency(window) == SumOver([k \in 1..Len(window) |-> window[k].latency], 1..Len(window))
SumLatencySq(window) ==
  SumOver([k \in 1..Len(window) |-> window[k].latency * window[k].latency], 1..Len(window))

\* A mean as the fraction the code divides out: num / den.
\* getAverageSpeed(): 0 for an empty window, else the sum over the length.
getAverageSpeed(window) ==
  IF Len(window) = 0 THEN [num |-> 0, den |-> 1]
  ELSE [num |-> SumSpeed(window), den |-> Len(window)]

\* getAverageLatency(): 0 for an empty window, else the sum over the length.
getAverageLatency(window) ==
  IF Len(window) = 0 THEN [num |-> 0, den |-> 1]
  ELSE [num |-> SumLatency(window), den |-> Len(window)]

\* getAverageSpeed() > 0
AverageSpeedPositive(window) == Len(window) > 0 /\ SumSpeed(window) > 0

\* getNetworkStability() > 0.7, in integers.  With k samples of sum S and sum of
\* squares Q: avg = S/k, getLatencyVariance() = sqrt((k*Q - S*S))/k (0 below two
\* samples), stability = 1 - variance/avg when avg > 0 and 0 otherwise.
StabilityAbove70(window) ==
  LET k == Len(window)
      S == SumLatency(window)
      Q == SumLatencySq(window)
  IN /\ k > 0
     /\ S > 0
     /\ (k < 2 \/ 100 * (k * Q - S * S) < 9 * S * S)

\* 0 <= getNetworkStability() <= 1, in the same integers: the value is 0 when
\* avg = 0, and 1 - sqrt(k*Q - S*S)/S otherwise, which is at most 1 and is
\* negative exactly when k*Q - S*S > S*S.
StabilityInUnitInterval(window) ==
  LET k == Len(window)
      S == SumLatency(window)
      Q == SumLatencySq(window)
  IN (k > 0 /\ S > 0) => (k < 2 \/ k * Q - S * S <= S * S)

RECURSIVE GCD(_, _)
GCD(a, b) == IF b = 0 THEN a ELSE GCD(b, a % b)

\* The powers of two from 128 KiB to 128 MiB, in units of 128 KiB.
PowersOfTwo == {1, 2, 4, 8, 16, 32, 64, 128, 256, 512, 1024}

\* Math.pow(2, Math.round(Math.log2(num / den))) for num / den >= 1: the power
\* of two p with p / sqrt(2) <= num / den < p * sqrt(2).
Pow2RoundLog2(num, den) ==
  CHOOSE p \in PowersOfTwo :
    /\ p * p * den * den <= 2 * num * num
    /\ num * num < 2 * p * p * den * den

\* calculateOptimalChunkSize(networkSpeed, latency, fileSize) for the speed
\* speedNum/speedDen units per second and a latency in whole milliseconds:
\* 1 MiB * min(speed / 1 MiB, 8) * (1 + min(latency / 100, 4)), clamped to
\* CHUNK_SIZE_OPTIONS' range and rounded to 2^round(log2(.)).
\* The fraction (1 + latencyFactor) = (100 + min(latency, 400)) / 100 is taken
\* in lowest terms, which keeps the squares below within the integers.
calculateOptimalChunkSizeNoMaxSize(speedNum, speedDen, latency, fileSize) ==
  LET g == GCD(100, Min(latency, 400))
      num0 == Min(speedNum, 64 * speedDen) * ((100 + Min(latency, 400)) \div g)
      den == speedDen * (100 \div g)
      num == IF num0 < 2 * den THEN 2 * den ELSE num0
  IN Pow2RoundLog2(num, den)

calculateOptimalChunkSize(speedNum, speedDen, latency, fileSize) ==
  LET g == GCD(100, Min(latency, 400))
      num0 == Min(speedNum, 64 * speedDen) * ((100 + Min(latency, 400)) \div g)
      den == speedDen * (100 \div g)
      num == IF num0 < 2 * den THEN 2 * den
             ELSE IF num0 > 128 * den THEN 128 * den ELSE num0
  IN Pow2RoundLog2(num, den)

\* ------------------------------------------------------------------ Semaphore
\* new Semaphore(maxConcurrency)
Semaphore(maxConcurrency) ==
  [maxConcurrency |-> maxConcurrency, currentConcurrency |-> 0, queue |-> <<>>]

\* Whether the promise of the next acquire() resolves at once.
acquireResolves(sem) == sem.currentConcurrency < sem.maxConcurrency

\* Semaphore.acquire(): take a permit, or queue the caller's resolve.
acquire(sem, resolve) ==
  IF sem.currentConcurrency < sem.maxConcurrency
  THEN [sem EXCEPT !.currentConcurrency = @ + 1]
  ELSE [sem EXCEPT !.queue = Append(@, resolve)]

\* Semaphore.release(): hand the permit to the first queued caller.  Nothing in
\* UploadManager calls it.
release(sem) ==
  IF Len(sem.queue) > 0
  THEN [sem EXCEPT !.queue = Tail(@)]
  ELSE [sem EXCEPT !.currentConcurrency = @ - 1]

\* ------------------------------------------------------------- UploadManager
\* createUpload's record; the uploads followed are S3 uploads.
\* speed is in units per second; eta (a display string
\* derived from speed) is not kept.  progress is the exact rational
\* <<numerator, denominator>> of (completedBytes / file.size) * 100.
NewUpload(fileSize, options) ==
  [size |-> fileSize,
   storageType |-> S3,
   status |-> PENDING,
   progress |-> <<0, 1>>,
   speed |-> 0,
   chunks |-> calculateChunks(fileSize, options.chunkSize),
   completedChunks |-> {},
   failedChunks |-> {},
   startTime |-> FALSE,
   endTime |-> FALSE,
   error |-> "null",
   options |-> options,
   uploadId |-> NoUploadId,
   fileHash |-> NoHash,
   finalUrl |-> "undefined"]

\* findUploadByChunkIndex: the first upload of the Map that has a chunk at that
\* index; 0 stands for null.
findUploadByChunkIndex(ups, chunkIndex) ==
  LET having == {u \in 1..Len(ups) : chunkIndex \in DOMAIN ups[u].chunks}
  IN IF having = {} THEN 0 ELSE CHOOSE u \in having : \A v \in having : u <= v

\* uploadChunk(upload, chunk) up to its first suspension: mark the chunk, then
\* either request its hash and wait, or post UPLOAD_CHUNK.
uploadChunk(m, u, i) ==
  LET marked == [m EXCEPT !.uploads[u].chunks[i].status = UPLOADING]
  IN IF m.uploads[u].chunks[i].hash = NoHash
     THEN [marked EXCEPT !.hashJobs = @ (+) One(<<u, i>>),
                         !.hashWaiters = @ (+) One(<<u, i>>)]
     ELSE [marked EXCEPT !.uploadJobs = @ (+) One(<<u, i, m.uploads[u].chunks[i].uploadUrl>>)]

\* The mutant of autoTuneChunkSize: the network's stability is not asked for.
autoTuneChunkSizeAnyStability(m, u) ==
  LET up == m.uploads[u]
      window == m.samples
  IN IF AverageSpeedPositive(window)
     THEN LET optimalSize ==
                calculateOptimalChunkSize(SumSpeed(window), Len(window), 0, up.size)
              diff == optimalSize - up.options.chunkSize
          IN IF 2 * (IF diff < 0 THEN -diff ELSE diff) > up.options.chunkSize
             THEN [m EXCEPT !.uploads[u].options.chunkSize = optimalSize,
                            !.uploads[u].chunks = calculateChunks(up.size, optimalSize)]
             ELSE m
     ELSE m

\* autoTuneChunkSize: re-plan the whole upload when the proposal differs from
\* the current chunk size by more than half of it.
autoTuneChunkSize(m, u) ==
  LET up == m.uploads[u]
      window == m.samples
  IN IF AverageSpeedPositive(window) /\ StabilityAbove70(window)
     THEN LET optimalSize ==
                calculateOptimalChunkSize(SumSpeed(window), Len(window), 0, up.size)
              diff == optimalSize - up.options.chunkSize
          IN IF 2 * (IF diff < 0 THEN -diff ELSE diff) > up.options.chunkSize
             THEN [m EXCEPT !.uploads[u].options.chunkSize = optimalSize,
                            !.uploads[u].chunks = calculateChunks(up.size, optimalSize)]
             ELSE m
     ELSE m

\* The mutant of updateUploadProgress: progress from the number of completed
\* chunks instead of their bytes.
updateUploadProgressByCount(m, u) ==
  LET up == m.uploads[u]
      completedBytes ==
        SumOver([i \in DOMAIN up.chunks |-> up.chunks[i].size], up.completedChunks)
      speed == IF up.startTime THEN completedBytes ELSE up.speed
      measured == [m EXCEPT !.uploads[u].progress =
                               <<Cardinality(up.completedChunks) * 100, ChunkCount(up)>>,
                            !.uploads[u].speed = speed,
                            !.samples = addSample(@, speed, 0)]
  IN IF up.options.autoTune /\ Cardinality(up.completedChunks) > AutoTuneMinCompleted
     THEN autoTuneChunkSize(measured, u)
     ELSE measured

\* updateUploadProgress: progress and speed from the completed chunks, one
\* diagnostics sample (latency 0), then the auto-tune gate.
updateUploadProgress(m, u) ==
  LET up == m.uploads[u]
      completedBytes ==
        SumOver([i \in DOMAIN up.chunks |-> up.chunks[i].size], up.completedChunks)
      speed == IF up.startTime THEN completedBytes ELSE up.speed
      measured == [m EXCEPT !.uploads[u].progress = <<completedBytes * 100, up.size>>,
                            !.uploads[u].speed = speed,
                            !.samples = addSample(@, speed, 0)]
  IN IF up.options.autoTune /\ Cardinality(up.completedChunks) > AutoTuneMinCompleted
     THEN autoTuneChunkSize(measured, u)
     ELSE measured

\* The JSON body finalizeUpload sends to POST /api/upload/finalize.
finalizeRequestBody(up) == [uploadId |-> up.uploadId, storageType |-> up.storageType]

\* finalizeUpload up to its await: the POST /api/upload/finalize is sent.
finalizeUpload(m, u) ==
  [m EXCEPT !.requests = @ (+) One(<<"finalize", u>>),
            !.finalizeFetches = @ (+) One(u)]

\* checkUploadCompletion
checkUploadCompletion(m, u) ==
  IF Cardinality(m.uploads[u].completedChunks) = ChunkCount(m.uploads[u])
  THEN finalizeUpload([m EXCEPT !.uploads[u].status = COMPLETED,
                                !.uploads[u].endTime = TRUE], u)
  ELSE m

\* handleChunkUploadComplete({chunkIndex})
handleChunkUploadComplete(m, chunkIndex) ==
  LET u == findUploadByChunkIndex(m.uploads, chunkIndex)
  IN IF u = 0 THEN m
     ELSE checkUploadCompletion(
            updateUploadProgress(
              [m EXCEPT !.uploads[u].chunks[chunkIndex].status = COMPLETED,
                        !.uploads[u].completedChunks = @ \cup {chunkIndex}], u), u)

\* handleChunkUploadError({chunkIndex, error, retryable})
handleChunkUploadError(m, chunkIndex, retryable) ==
  LET u == findUploadByChunkIndex(m.uploads, chunkIndex)
  IN IF u = 0 THEN m
     ELSE
       LET retryCount == m.uploads[u].chunks[chunkIndex].retryCount + 1
           counted == [m EXCEPT !.uploads[u].chunks[chunkIndex].retryCount = retryCount]
           failedChunks == m.uploads[u].failedChunks \cup {chunkIndex}
           failed == [counted EXCEPT !.uploads[u].chunks[chunkIndex].status = FAILED,
                                     !.uploads[u].failedChunks = failedChunks]
       IN updateUploadProgress(
            IF retryable /\ retryCount < MaxChunkRetries
            THEN [counted EXCEPT !.timers = @ (+) One(<<u, chunkIndex>>)]
            ELSE IF 10 * Cardinality(failedChunks) > ChunkCount(m.uploads[u])
                 THEN [failed EXCEPT !.uploads[u].status = FAILED,
                                     !.uploads[u].error = "Too many chunk failures"]
                 ELSE failed,
            u)

RECURSIVE handleChunkUploadErrors(_, _, _)
\* k rejected hash waits of one chunk index, each caught by its uploadChunk
handleChunkUploadErrors(m, chunkIndex, k) ==
  IF k = 0 THEN m
  ELSE handleChunkUploadErrors(handleChunkUploadError(m, chunkIndex, TRUE), chunkIndex, k - 1)

\* The chunks uploadChunksWithConcurrency filters, in array order.
RECURSIVE pendingFrom(_, _)
pendingFrom(up, index) ==
  IF index \notin DOMAIN up.chunks THEN <<>>
  ELSE IF up.chunks[index].status = PENDING /\ index \notin up.completedChunks
       THEN <<index>> \o pendingFrom(up, index + 1)
       ELSE pendingFrom(up, index + 1)

RECURSIVE acquireEach(_, _, _, _)
\* The for loop of uploadChunksWithConcurrency: one acquire() per pending
\* chunk; a chunk whose acquire resolves runs uploadChunk.
acquireEach(m, u, sem, pendingChunks) ==
  IF pendingChunks = <<>> THEN m
  ELSE acquireEach(IF acquireResolves(sem)
                   THEN uploadChunk(m, u, Head(pendingChunks))
                   ELSE m,
                   u, acquire(sem, Head(pendingChunks)), Tail(pendingChunks))

\* uploadChunksWithConcurrency(upload)
uploadChunksWithConcurrency(m, u) ==
  acquireEach(m, u, Semaphore(m.uploads[u].options.concurrency),
              pendingFrom(m.uploads[u], 0))

\* -------------------------------------------------------------------- actions
\* createUpload(file, storageType, options): a file is dropped on the page; the
\* plan is made and the whole-file hash requested.
CreateUpload(fileSize, concurrency) ==
  LET upload == NewUpload(fileSize,
                          [chunkSize |-> 2, concurrency |-> concurrency, autoTune |-> TRUE])
  IN /\ uploads' = Append(uploads, upload)
     /\ fileHashJobs' = fileHashJobs (+) One(Len(uploads) + 1)
     /\ UNCHANGED <<samples, initFetches, finalizeFetches, hashJobs, hashWaiters,
                    uploadJobs, timers, requests, fatalErrors, liveCancels, planVars, workerVars, serverVars, pureVars>>

\* startUpload(uploadId) up to its await of initializeChunkUploads.
StartUpload(u) ==
  /\ CopiesIn(u, initFetches) < MaxPendingInits
  /\ uploads' = [uploads EXCEPT ![u].status = UPLOADING, ![u].startTime = TRUE]
  /\ initFetches' = initFetches (+) One(u)
  /\ liveCancels' = liveCancels \ {u}
  /\ UNCHANGED <<samples, finalizeFetches, hashJobs, hashWaiters, uploadJobs, timers,
                 requests, fileHashJobs, fatalErrors, planVars, workerVars, serverVars, pureVars>>

\* POST /api/upload/initialize answers 200: the ids and URLs are stored and
\* startUpload goes on to uploadChunksWithConcurrency.
InitializeOk(u) ==
  /\ BagIn(u, initFetches)
  /\ initFetches' = initFetches (-) One(u)
  /\ LET assigned ==
           [Manager EXCEPT
              !.uploads[u].uploadId = u,
              !.uploads[u].chunks =
                 [i \in DOMAIN @ |-> [@[i] EXCEPT !.uploadUrl = <<u, i>>]]]
     IN Becomes(uploadChunksWithConcurrency(assigned, u))
  /\ UNCHANGED <<fileHashJobs, fatalErrors, liveCancels, planVars, workerVars, serverVars, pureVars>>

\* The mutant of InitializeFails: the catch block does not rethrow, so
\* startUpload goes on to uploadChunksWithConcurrency.
InitializeFailsSwallowed(u) ==
  /\ BagIn(u, initFetches)
  /\ initFetches' = initFetches (-) One(u)
  /\ Becomes(uploadChunksWithConcurrency(
               [Manager EXCEPT !.uploads[u].status = FAILED,
                               !.uploads[u].error = "Failed to initialize upload"], u))
  /\ fatalErrors' = fatalErrors \cup {u}
  /\ UNCHANGED <<fileHashJobs, liveCancels, planVars, workerVars, serverVars, pureVars>>

\* The initialize request fails or answers non-OK: the catch block marks the
\* upload failed and rethrows, so startUpload dispatches nothing.
InitializeFails(u) ==
  /\ BagIn(u, initFetches)
  /\ initFetches' = initFetches (-) One(u)
  /\ uploads' = [uploads EXCEPT ![u].status = FAILED,
                                ![u].error = "Failed to initialize upload"]
  /\ fatalErrors' = fatalErrors \cup {u}
  /\ UNCHANGED <<samples, finalizeFetches, hashJobs, hashWaiters, uploadJobs, timers,
                 requests, fileHashJobs, liveCancels, planVars, workerVars, serverVars, pureVars>>

\* pauseUpload(uploadId)
PauseUpload(u) ==
  /\ uploads' = [uploads EXCEPT ![u].status = PAUSED]
  /\ UNCHANGED <<samples, initFetches, finalizeFetches, hashJobs, hashWaiters,
                 uploadJobs, timers, requests, fileHashJobs, fatalErrors, liveCancels, planVars, workerVars, serverVars, pureVars>>

\* resumeUpload(uploadId): acts only on a paused upload.
ResumeUpload(u) ==
  /\ uploads[u].status = PAUSED
  /\ Becomes(uploadChunksWithConcurrency(
               [Manager EXCEPT !.uploads[u].status = UPLOADING], u))
  /\ liveCancels' = liveCancels \ {u}
  /\ UNCHANGED <<initFetches, fileHashJobs, fatalErrors, planVars, workerVars, serverVars, pureVars>>

\* cancelUpload(uploadId)
CancelUpload(u) ==
  /\ uploads' = [uploads EXCEPT ![u].status = CANCELLED]
  /\ liveCancels' = IF uploads[u].status \in NonTerminal
                    THEN liveCancels \cup {u} ELSE liveCancels
  /\ UNCHANGED <<samples, initFetches, finalizeFetches, hashJobs, hashWaiters,
                 uploadJobs, timers, requests, fileHashJobs, fatalErrors, planVars, workerVars, serverVars, pureVars>>

\* FileUploader's onRetry, offered for a failed upload: reset, then startUpload.
RetryUpload(u) ==
  /\ uploads[u].status = FAILED
  /\ CopiesIn(u, initFetches) < MaxPendingInits
  /\ uploads' = [uploads EXCEPT ![u].status = UPLOADING,
                                ![u].progress = <<0, 1>>,
                                ![u].completedChunks = {},
                                ![u].failedChunks = {},
                                ![u].startTime = TRUE]
  /\ initFetches' = initFetches (+) One(u)
  /\ liveCancels' = liveCancels \ {u}
  /\ UNCHANGED <<samples, finalizeFetches, hashJobs, hashWaiters, uploadJobs, timers,
                 requests, fileHashJobs, fatalErrors, planVars, workerVars, serverVars, pureVars>>

\* The uploadChunk calls waiting for the hash of one chunk index, over all uploads.
WaitersOf(chunkIndex) == {w \in BagToSet(hashWaiters) : w[2] = chunkIndex}
WaitingCount(chunkIndex) ==
  SumOver([w \in WaitersOf(chunkIndex) |-> CopiesIn(w, hashWaiters)], WaitersOf(chunkIndex))

RECURSIVE WithoutAll(_, _)
\* The bag without any copy of the elements of S.
WithoutAll(bag, S) ==
  IF S = {} THEN bag
  ELSE LET w == CHOOSE x \in S : TRUE
       IN WithoutAll([x \in (DOMAIN bag) \ {w} |-> bag[x]], S \ {w})

RECURSIVE PostUploadChunk(_, _, _)
\* Every resolved hash wait stores the hash in its own chunk and posts UPLOAD_CHUNK.
PostUploadChunk(m, waiters, hash) ==
  IF waiters = {} THEN m
  ELSE LET w == CHOOSE x \in waiters : TRUE
       IN PostUploadChunk(
            [m EXCEPT !.uploads[w[1]].chunks[w[2]].hash = hash,
                      !.uploadJobs =
                         @ (+) [x \in {<<w[1], w[2], m.uploads[w[1]].chunks[w[2]].uploadUrl>>}
                                  |-> CopiesIn(w, m.hashWaiters)]],
            waiters \ {w}, hash)

\* The hash worker answers CHUNK_HASH_COMPLETE for one HASH_CHUNK job: onmessage
\* runs handleChunkHashComplete, then every listener waiting for that chunk
\* index resolves.
HashChunkComplete(job) ==
  /\ BagIn(job, hashJobs)
  /\ LET chunkIndex == job[2]
         u == findUploadByChunkIndex(uploads, chunkIndex)
         handled == IF u = 0 THEN Manager
                    ELSE [Manager EXCEPT !.uploads[u].chunks[chunkIndex].hash = job]
         resolved == PostUploadChunk(handled, WaitersOf(chunkIndex), job)
     IN Becomes([resolved EXCEPT
                   !.hashJobs = @ (-) One(job),
                   !.hashWaiters = WithoutAll(@, WaitersOf(chunkIndex))])
  /\ UNCHANGED <<initFetches, fileHashJobs, fatalErrors, liveCancels, planVars, workerVars, serverVars, pureVars>>

\* The hash worker answers CHUNK_HASH_ERROR: onmessage has no case for it; every
\* listener waiting for that chunk index rejects and its uploadChunk reports a
\* retryable chunk error.
HashChunkError(job) ==
  /\ BagIn(job, hashJobs)
  /\ LET chunkIndex == job[2]
         rejected == [Manager EXCEPT
                        !.hashJobs = @ (-) One(job),
                        !.hashWaiters = WithoutAll(@, WaitersOf(chunkIndex))]
     IN Becomes(handleChunkUploadErrors(rejected, chunkIndex, WaitingCount(chunkIndex)))
  /\ UNCHANGED <<initFetches, fileHashJobs, fatalErrors, liveCancels, planVars, workerVars, serverVars, pureVars>>

\* The upload worker answers CHUNK_UPLOAD_COMPLETE: the PUT to the job's URL was
\* answered 2xx.  A job posted without a URL has nothing to be answered by.
ChunkUploadComplete(job) ==
  /\ BagIn(job, uploadJobs)
  /\ job[3] # NoUrl
  /\ Becomes(handleChunkUploadComplete(
               [Manager EXCEPT !.uploadJobs = @ (-) One(job)], job[2]))
  /\ UNCHANGED <<initFetches, fileHashJobs, fatalErrors, liveCancels, planVars, workerVars, serverVars, pureVars>>

\* The upload worker answers CHUNK_UPLOAD_ERROR, retryable or not.
ChunkUploadError(job, retryable) ==
  /\ BagIn(job, uploadJobs)
  /\ Becomes(handleChunkUploadError(
               [Manager EXCEPT !.uploadJobs = @ (-) One(job)], job[2], retryable))
  /\ fatalErrors' = IF retryable THEN fatalErrors
                    ELSE fatalErrors \cup ({findUploadByChunkIndex(uploads, job[2])} \ {0})
  /\ UNCHANGED <<initFetches, fileHashJobs, liveCancels, planVars, workerVars, serverVars, pureVars>>

\* A retry timer set by handleChunkUploadError fires, after the delay of
\* getRetryConfig(chunk.retryCount).
RetryTimerFires(t) ==
  /\ BagIn(t, timers)
  /\ Becomes(uploadChunk([Manager EXCEPT !.timers = @ (-) One(t)], t[1], t[2]))
  /\ UNCHANGED <<initFetches, fileHashJobs, fatalErrors, liveCancels, planVars, workerVars, serverVars, pureVars>>

\* The hash worker answers HASH_COMPLETE for the HASH_FILE job of an upload:
\* handleFileHashComplete gives the hash to the first upload that has none.
FileHashComplete(src) ==
  /\ BagIn(src, fileHashJobs)
  /\ fileHashJobs' = fileHashJobs (-) One(src)
  /\ LET without == {u \in UploadIds : uploads[u].fileHash = NoHash}
     IN uploads' = IF without = {} THEN uploads
                   ELSE LET first == CHOOSE u \in without : \A v \in without : u <= v
                        IN [uploads EXCEPT ![first].fileHash = <<src>>]
  /\ UNCHANGED <<samples, initFetches, finalizeFetches, hashJobs, hashWaiters,
                 uploadJobs, timers, requests, fatalErrors, liveCancels, planVars, workerVars, serverVars, pureVars>>

\* The hash worker answers HASH_ERROR for a HASH_FILE job: handleHashError logs it.
FileHashError(src) ==
  /\ BagIn(src, fileHashJobs)
  /\ fileHashJobs' = fileHashJobs (-) One(src)
  /\ UNCHANGED <<uploads, samples, initFetches, finalizeFetches, hashJobs, hashWaiters,
                 uploadJobs, timers, requests, fatalErrors, liveCancels, planVars, workerVars, serverVars, pureVars>>

\* POST /api/upload/finalize answers 200 with the final URL.
FinalizeOk(u) ==
  /\ BagIn(u, finalizeFetches)
  /\ finalizeFetches' = finalizeFetches (-) One(u)
  /\ uploads' = [uploads EXCEPT ![u].finalUrl = "finalUrl"]
  /\ UNCHANGED <<samples, initFetches, hashJobs, hashWaiters, uploadJobs, timers,
                 requests, fileHashJobs, fatalErrors, liveCancels, planVars, workerVars, serverVars, pureVars>>

\* The finalize request fails or answers non-OK.
FinalizeFails(u) ==
  /\ BagIn(u, finalizeFetches)
  /\ finalizeFetches' = finalizeFetches (-) One(u)
  /\ uploads' = [uploads EXCEPT ![u].status = FAILED,
                                ![u].error = "Failed to finalize upload"]
  /\ fatalErrors' = fatalErrors \cup {u}
  /\ UNCHANGED <<samples, initFetches, hashJobs, hashWaiters, uploadJobs, timers,
                 requests, fileHashJobs, liveCancels, planVars, workerVars, serverVars, pureVars>>

\* ------------------------------------------------- the upload worker, by fetch
\* What one fetch of the upload worker can meet: a response with its status
\* (a 308 carries Range: bytes=0-lastByte), or a rejected fetch with the
\* TypeError message of the browser.
Response(status) == [status |-> status, message |-> "HTTP", lastByte |-> NoLastByte]

Incomplete(lastByte) == [status |-> 308, message |-> "HTTP", lastByte |-> lastByte]

Rejected(message) == [status |-> 0, message |-> message, lastByte |-> NoLastByte]

FetchOutcomes ==
  {Response(200), Response(400), Response(408), Response(429), Response(500),
   Incomplete(0),
   Rejected("NetworkError when attempting to fetch resource."),
   Rejected("Failed to fetch")}

\* response.ok
ok(outcome) == outcome.status >= 200 /\ outcome.status <= 299

\* error.message.includes(...) on `HTTP ${response.status}: ...` or on the
\* TypeError's message.
includesHTTP4(outcome) == outcome.message = "HTTP" /\ outcome.status \div 100 = 4
includesHTTP429(outcome) == outcome.message = "HTTP" /\ outcome.status = 429
includesHTTP5(outcome) == outcome.message = "HTTP" /\ outcome.status \div 100 = 5
includesNetworkError(outcome) ==
  outcome.message = "NetworkError when attempting to fetch resource."

\* response.headers.get('Range') as <<first, last>> of "bytes=first-last";
\* <<>> when the response has no such header.
RangeHeader(outcome) ==
  IF outcome.lastByte = NoLastByte THEN <<>> ELSE <<0, outcome.lastByte>>

\* GoogleDriveAdapter / GCSAdapter uploadChunk on a 308:
\* range ? parseInt(range.split('-')[1]) + 1 : startByte
nextByte(range, startByte) == IF range = <<>> THEN startByte ELSE range[2] + 1

RECURSIVE Pow2(_)
\* Math.pow(2, attempt)
Pow2(attempt) == IF attempt = 0 THEN 1 ELSE 2 * Pow2(attempt - 1)

\* Math.random() * 0.1 in thousandths: the least and (nearly) the greatest value.
Jitters == {0, 99}

\* The upload worker's backoff: baseDelay * 2^attempt * (1 + Math.random() * 0.1), in ms.
workerDelay(attempt, jitter) == (workerBaseDelay * Pow2(attempt) * (1000 + jitter)) \div 1000

\* getRetryConfig(attempt).delay, in ms.
getRetryConfigDelay(attempt, jitter) ==
  Min((baseDelay * Pow2(attempt) * (1000 + jitter)) \div 1000, maxDelay)

\* One turn of the loop of the upload worker's uploadChunk, given the loop
\* variable and what the fetch met: return the success, go round again after
\* a delay, or leave the loop and throw.
workerUploadChunk(attempt, outcome) ==
  IF ok(outcome) THEN [type |-> "CHUNK_UPLOAD_COMPLETE", retryable |-> FALSE]
  ELSE IF (includesHTTP4(outcome) /\ ~includesHTTP429(outcome))
            \/ attempt + 1 >= workerMaxAttempts
       THEN [type |-> "CHUNK_UPLOAD_ERROR",
             retryable |-> includesHTTP5(outcome) \/ includesNetworkError(outcome)]
       ELSE [type |-> "again", retryable |-> FALSE]

\* The PUT the worker sends for a job: the whole chunk, whatever came before.
PutRange(job) ==
  <<uploads[job[1]].chunks[job[2]].start, uploads[job[1]].chunks[job[2]].end>>

\* The history of a chunk after one more PUT: how many were sent, the byte
\* range and outcome of the last one, and the delay set before the next
\* attempt (NoDelay when none is set).
LogPut(job, outcome, delay) ==
  LET key == <<job[1], job[2]>>
      sent == IF key \in DOMAIN transfers THEN transfers[key].puts ELSE 0
      entry == [puts |-> sent + 1, range |-> PutRange(job), outcome |-> outcome,
                delay |-> delay]
  IN [k \in DOMAIN transfers \cup {key} |-> IF k = key THEN entry ELSE transfers[k]]

\* One fetch of an UPLOAD_CHUNK job is answered.  The worker returns, waits and
\* goes round its loop, or throws; the manager handles the message it posts.
WorkerFetch(job, outcome, jitter) ==
  /\ BagIn(job, uploadJobs)
  /\ ok(outcome) => job[3] # NoUrl
  /\ LET attempt == IF job \in DOMAIN workerAttempt THEN workerAttempt[job] ELSE 0
         turn == workerUploadChunk(attempt, outcome)
         finished == [Manager EXCEPT !.uploadJobs = @ (-) One(job)]
         left == [j \in (DOMAIN workerAttempt) \ {job} |-> workerAttempt[j]]
     IN CASE turn.type = "again" ->
               /\ workerAttempt' =
                    [j \in DOMAIN workerAttempt \cup {job} |->
                       IF j = job THEN attempt + 1 ELSE workerAttempt[j]]
               /\ transfers' = LogPut(job, outcome, workerDelay(attempt, jitter))
               /\ UNCHANGED <<managerVars, fatalErrors>>
          [] turn.type = "CHUNK_UPLOAD_COMPLETE" ->
               /\ workerAttempt' = left
               /\ transfers' = LogPut(job, outcome, NoDelay)
               /\ Becomes(handleChunkUploadComplete(finished, job[2]))
               /\ UNCHANGED <<initFetches, fileHashJobs, fatalErrors>>
          [] turn.type = "CHUNK_UPLOAD_ERROR" ->
               LET handled == handleChunkUploadError(finished, job[2], turn.retryable)
                   u == findUploadByChunkIndex(uploads, job[2])
                   timerSet == handled.timers # finished.timers
               IN /\ workerAttempt' = left
                  /\ transfers' =
                       LogPut(job, outcome,
                              IF timerSet
                              THEN getRetryConfigDelay(
                                     handled.uploads[u].chunks[job[2]].retryCount, jitter)
                              ELSE NoDelay)
                  /\ Becomes(handled)
                  /\ fatalErrors' = IF turn.retryable THEN fatalErrors
                                    ELSE fatalErrors \cup ({u} \ {0})
                  /\ UNCHANGED <<initFetches, fileHashJobs>>
  /\ UNCHANGED <<liveCancels, planVars, serverVars, pureVars>>

\* ------------------------------------------------------------------ the server
\* routes/upload.js (/api/upload) and routes/s3.js (/api/storage/s3).  File
\* sizes on the server are counted in KiB.

\* The JSON bodies posted to /api/upload/initialize: every field may be
\* absent, empty or zero, within the limits, on them or past them.
InitializeBodies ==
  LET fields == {"filename", "fileSize", "chunkCount", "storageType"}
      full == [filename : {"", "test.txt"},
               fileSize : {0, 1, maxFileSize, maxFileSize + 1},
               chunkCount : {0, 1, maxChunkCount, maxChunkCount + 1},
               storageType : STORAGE_TYPES \cup {"ftp"}]
  IN full \cup {[f \in fields \ {without} |-> body[f]] : body \in full, without \in fields}

\* The JSON bodies posted to /api/upload/finalize and to the abort routes: an
\* uploadId the server has issued or not, or none.
ServerIds == 1..(MaxServerSessions + 1)

FinalizeBodies ==
  [uploadId : ServerIds, storageType : STORAGE_TYPES \cup {"ftp"}]
    \cup [uploadId : ServerIds] \cup [storageType : STORAGE_TYPES]

AbortBodies == [uploadId : ServerIds] \cup {<<>>}

\* !body.field for a string and for a number
missingString(body, field) == field \notin DOMAIN body \/ body[field] = ""
missingNumber(body, field) == field \notin DOMAIN body \/ body[field] = 0

\* res.status(status).json(body) of a route
Answer(route, status, body) == [route |-> route, status |-> status, body |-> body]

\* generateS3ChunkUrls / generateGoogleDriveChunkUrls / generateGCSChunkUrls:
\* `/api/storage/<provider>/upload/${uploadSession.id}/${i}` for i < chunkCount.
generateChunkUrls(provider, id, chunkCount) ==
  [k \in 1..chunkCount |-> <<provider, id, k - 1>>]

\* finalizeS3Upload / finalizeGoogleDriveUpload / finalizeGCSUpload
finalizeProviderUpload(storageType, id, session) ==
  IF storageType = GOOGLE_DRIVE THEN <<"https://drive.google.com/file/d", id>>
  ELSE <<storageType, session.filename>>

\* The validation of POST /api/upload/initialize: the error it answers, or "".
initializeValidation(body) ==
  IF \/ missingString(body, "filename") \/ missingNumber(body, "fileSize")
     \/ missingNumber(body, "chunkCount") \/ missingString(body, "storageType")
  THEN "Missing required fields: filename, fileSize, chunkCount, storageType"
  ELSE IF body.fileSize > maxFileSize THEN "File size exceeds maximum limit of 10GB"
  ELSE IF body.chunkCount > maxChunkCount
       THEN "Too many chunks. Maximum 10,000 chunks allowed."
       ELSE ""

\* router.post('/initialize') of routes/upload.js.  The session is stored
\* before the storage type is looked at.
ServerInitialize(body) ==
  LET error == initializeValidation(body)
      uploadId == Len(uploadSessions) + 1
      uploadSession ==
        [id |-> uploadId, filename |-> body.filename, fileSize |-> body.fileSize,
         chunkCount |-> body.chunkCount, storageType |-> body.storageType,
         status |-> "initialized", completedChunks |-> {}, failedChunks |-> {},
         finalUrl |-> "undefined"]
  IN /\ error = "" => Len(uploadSessions) < MaxServerSessions
     /\ uploadSessions' = IF error = "" THEN Append(uploadSessions, uploadSession)
                          ELSE uploadSessions
     /\ response' =
          IF error # "" THEN Answer("/api/upload/initialize", 400, [error |-> error])
          ELSE IF body.storageType \in STORAGE_TYPES
               THEN Answer("/api/upload/initialize", 200,
                           [uploadId |-> uploadId,
                            chunkUrls |-> generateChunkUrls(body.storageType, uploadId,
                                                            body.chunkCount),
                            chunkSize |-> defaultChunkSize])
               ELSE Answer("/api/upload/initialize", 400,
                           [error |-> "Unsupported storage type"])
     /\ UNCHANGED <<managerVars, fatalErrors, liveCancels, planVars, workerVars, pureVars,
                    multipartUploads, s3UploadIds>>

\* The mutant of ServerFinalize: no check that all chunks are completed.
ServerFinalizeUnchecked(body) ==
  LET route == "/api/upload/finalize"
      known == "uploadId" \in DOMAIN body /\ body.uploadId \in 1..Len(uploadSessions)
      finalUrl ==
        finalizeProviderUpload(body.storageType, body.uploadId, uploadSessions[body.uploadId])
  IN /\ IF missingNumber(body, "uploadId") \/ missingString(body, "storageType")
        THEN /\ response' = Answer(route, 400, [error |-> "Missing uploadId or storageType"])
             /\ UNCHANGED uploadSessions
        ELSE IF ~known
        THEN /\ response' = Answer(route, 404, [error |-> "Upload session not found"])
             /\ UNCHANGED uploadSessions
        ELSE IF body.storageType \notin STORAGE_TYPES
        THEN /\ response' = Answer(route, 400, [error |-> "Unsupported storage type"])
             /\ UNCHANGED uploadSessions
        ELSE /\ uploadSessions' = [uploadSessions EXCEPT ![body.uploadId].status = "completed",
                                                         ![body.uploadId].finalUrl = finalUrl]
             /\ response' = Answer(route, 200, [success |-> TRUE, finalUrl |-> finalUrl,
                                                uploadId |-> body.uploadId])
     /\ UNCHANGED <<managerVars, fatalErrors, liveCancels, planVars, workerVars, pureVars,
                    multipartUploads, s3UploadIds>>

\* router.post('/finalize') of routes/upload.js
ServerFinalize(body) ==
  LET route == "/api/upload/finalize"
      known == "uploadId" \in DOMAIN body /\ body.uploadId \in 1..Len(uploadSessions)
      complete ==
        Cardinality(uploadSessions[body.uploadId].completedChunks)
          = uploadSessions[body.uploadId].chunkCount
      finalUrl ==
        finalizeProviderUpload(body.storageType, body.uploadId, uploadSessions[body.uploadId])
  IN /\ IF missingNumber(body, "uploadId") \/ missingString(body, "storageType")
        THEN /\ response' = Answer(route, 400, [error |-> "Missing uploadId or storageType"])
             /\ UNCHANGED uploadSessions
        ELSE IF ~known
        THEN /\ response' = Answer(route, 404, [error |-> "Upload session not found"])
             /\ UNCHANGED uploadSessions
        ELSE IF ~complete
        THEN /\ response' = Answer(route, 400, [error |-> "Not all chunks have been uploaded"])
             /\ UNCHANGED uploadSessions
        ELSE IF body.storageType \notin STORAGE_TYPES
        THEN /\ response' = Answer(route, 400, [error |-> "Unsupported storage type"])
             /\ UNCHANGED uploadSessions
        ELSE /\ uploadSessions' = [uploadSessions EXCEPT ![body.uploadId].status = "completed",
                                                         ![body.uploadId].finalUrl = finalUrl]
             /\ response' = Answer(route, 200, [success |-> TRUE, finalUrl |-> finalUrl,
                                                uploadId |-> body.uploadId])
     /\ UNCHANGED <<managerVars, fatalErrors, liveCancels, planVars, workerVars, pureVars,
                    multipartUploads, s3UploadIds>>

\* router.post('/abort') of routes/upload.js
ServerAbort(body) ==
  LET route == "/api/upload/abort"
  IN /\ IF missingNumber(body, "uploadId")
        THEN /\ response' = Answer(route, 400, [error |-> "Missing uploadId"])
             /\ UNCHANGED uploadSessions
        ELSE IF body.uploadId \notin 1..Len(uploadSessions)
        THEN /\ response' = Answer(route, 404, [error |-> "Upload session not found"])
             /\ UNCHANGED uploadSessions
        ELSE /\ uploadSessions' = [uploadSessions EXCEPT ![body.uploadId].status = "aborted"]
             /\ response' = Answer(route, 200, [success |-> TRUE])
     /\ UNCHANGED <<managerVars, fatalErrors, liveCancels, planVars, workerVars, pureVars,
                    multipartUploads, s3UploadIds>>

\* router.post('/initialize') of routes/s3.js with a complete body and a
\* configured bucket: S3 issues an UploadId and the uploadInfo is stored.
S3Initialize(chunkCount) ==
  LET UploadId == s3UploadIds + 1
  IN /\ s3UploadIds < MaxServerSessions
     /\ s3UploadIds' = UploadId
     /\ multipartUploads' =
          [id \in DOMAIN multipartUploads \cup {UploadId} |->
             IF id = UploadId THEN [uploadId |-> UploadId, chunkCount |-> chunkCount]
             ELSE multipartUploads[id]]
     /\ response' = Answer("/api/storage/s3/initialize", 200,
                           [uploadId |-> UploadId,
                            presignedUrls |-> [k \in 1..chunkCount |-> <<UploadId, k>>]])
     /\ UNCHANGED <<managerVars, fatalErrors, liveCancels, planVars, workerVars, pureVars,
                    uploadSessions>>

\* The status router.put('/upload/:uploadId/:partNumber') of routes/s3.js
\* answers: 400 when !parseInt(partNumber), 404 for an UploadId it does not
\* hold, else the 307 redirect to the part's presigned URL.
uploadPartStatus(uploadId, partNumber) ==
  IF partNumber = 0 THEN 400
  ELSE IF uploadId \notin DOMAIN multipartUploads THEN 404
  ELSE 307

\* A PUT to /api/storage/s3/upload/<uploadId>/<partNumber>
S3UploadPart(uploadId, partNumber) ==
  LET route == "/api/storage/s3/upload"
      status == uploadPartStatus(uploadId, partNumber)
  IN /\ response' =
          IF status = 400 THEN Answer(route, 400, [error |-> "Missing uploadId or partNumber"])
          ELSE IF status = 404 THEN Answer(route, 404, [error |-> "Upload not found"])
          ELSE Answer(route, 307, [location |-> <<uploadId, partNumber>>])
     /\ UNCHANGED <<managerVars, fatalErrors, liveCancels, planVars, workerVars, pureVars,
                    uploadSessions, multipartUploads, s3UploadIds>>

\* router.post('/abort') of routes/s3.js; s3.abortMultipartUpload may throw.
S3Abort(body, s3Throws) ==
  LET route == "/api/storage/s3/abort"
  IN /\ IF missingNumber(body, "uploadId")
        THEN /\ response' = Answer(route, 400, [error |-> "Missing uploadId"])
             /\ UNCHANGED multipartUploads
        ELSE IF body.uploadId \notin DOMAIN multipartUploads
        THEN /\ response' = Answer(route, 404, [error |-> "Upload not found"])
             /\ UNCHANGED multipartUploads
        ELSE IF s3Throws
        THEN /\ response' = Answer(route, 500, [error |-> "Failed to abort S3 upload"])
             /\ UNCHANGED multipartUploads
        ELSE /\ multipartUploads' =
                  [id \in (DOMAIN multipartUploads) \ {body.uploadId} |-> multipartUploads[id]]
             /\ response' = Answer(route, 200, [success |-> TRUE])
     /\ UNCHANGED <<managerVars, fatalErrors, liveCancels, planVars, workerVars, pureVars,
                    uploadSessions, s3UploadIds>>

\* S3Adapter.abortUpload(uploadId), given the route's response: resolves with
\* { success: true } or throws.
abortUpload(res) == IF ok(res) THEN "resolved" ELSE "rejected"

\* ------------------------------------------------------------------ S3Adapter
\* The ETag header S3 answers the PUT of chunk index i with: quoted.
ETagHeader(chunkIndex) == [quoted |-> TRUE, tag |-> chunkIndex]

\* S3Adapter.uploadChunk(chunk, uploadUrl, headers) for a 2xx answer that
\* carries `etag`: the quotes are removed, the part number is the caller's
\* X-Part-Number header or 1.
S3Adapter_uploadChunk(etag, headers) ==
  [success |-> TRUE,
   etag |-> [etag EXCEPT !.quoted = FALSE],
   partNumber |-> IF "X-Part-Number" \in DOMAIN headers THEN headers["X-Part-Number"] ELSE 1]

\* The parts S3Adapter.finalizeUpload(uploadId, parts) posts:
\* parts.map((part, index) => ({ ETag: part.etag, PartNumber: index + 1 })).
S3Adapter_finalizeUpload(partsGiven) ==
  [index \in 1..Len(partsGiven) |-> [ETag |-> partsGiven[index].etag, PartNumber |-> index]]

\* The PUT of chunk index i is answered 2xx and its result joins the others.
AdapterChunkUploaded(chunkIndex, headers) ==
  /\ finalizeParts = <<>>
  /\ \A k \in DOMAIN parts : parts[k].etag.tag # chunkIndex
  /\ parts' = Append(parts, S3Adapter_uploadChunk(ETagHeader(chunkIndex), headers))
  /\ UNCHANGED <<finalizeParts, added, optimalInput, optimalOutput,
                 managerVars, fatalErrors, liveCancels, planVars, workerVars, serverVars>>

\* Every chunk is uploaded: finalizeUpload is called with the results.
AdapterFinalize ==
  /\ finalizeParts = <<>>
  /\ Len(parts) = MaxParts
  /\ finalizeParts' = <<S3Adapter_finalizeUpload(parts)>>
  /\ UNCHANGED <<parts, added, optimalInput, optimalOutput,
                 managerVars, fatalErrors, liveCancels, planVars, workerVars, serverVars>>

\* ------------------------------------------------------------- specifications
ManagerInit ==
  /\ uploads = <<>>
  /\ samples = <<>>
  /\ initFetches = EmptyBag
  /\ finalizeFetches = EmptyBag
  /\ hashJobs = EmptyBag
  /\ hashWaiters = EmptyBag
  /\ uploadJobs = EmptyBag
  /\ timers = EmptyBag
  /\ fileHashJobs = EmptyBag
  /\ requests = EmptyBag
  /\ fatalErrors = {}
  /\ liveCancels = {}
  /\ workerAttempt = <<>>
  /\ transfers = <<>>

\* The server has just started: no session, and nothing answered yet.
ServerInit ==
  /\ uploadSessions = <<>>
  /\ multipartUploads = <<>>
  /\ s3UploadIds = 0
  /\ response = [route |-> "none", status |-> 0, body |-> <<>>]

\* Nothing collected, sampled or computed yet.
PureInit ==
  /\ parts = <<>>
  /\ finalizeParts = <<>>
  /\ added = <<>>
  /\ optimalInput = <<0, 1, 0, 0>>
  /\ optimalOutput = <<>>

Init ==
  /\ ManagerInit
  /\ ServerInit
  /\ PureInit
  /\ planInput = <<0, 1>>
  /\ planOutput = <<>>

UserStep ==
  \/ \E fileSize \in FileSizes, concurrency \in 1..MaxConcurrency :
       uploads = <<>> /\ CreateUpload(fileSize, concurrency)
  \/ \E u \in UploadIds : StartUpload(u)
  \/ \E u \in UploadIds : PauseUpload(u)
  \/ \E u \in UploadIds : ResumeUpload(u)
  \/ \E u \in UploadIds : CancelUpload(u)
  \/ \E u \in UploadIds : RetryUpload(u)

SystemStep ==
  \/ \E u \in UploadIds : InitializeOk(u)
  \/ \E u \in UploadIds : InitializeFails(u)
  \/ \E job \in BagToSet(hashJobs) : HashChunkComplete(job)
  \/ \E job \in BagToSet(hashJobs) : HashChunkError(job)
  \/ \E job \in BagToSet(uploadJobs) : ChunkUploadComplete(job)
  \/ \E job \in BagToSet(uploadJobs), retryable \in BOOLEAN : ChunkUploadError(job, retryable)
  \/ \E t \in BagToSet(timers) : RetryTimerFires(t)
  \/ \E u \in UploadIds : FinalizeOk(u)
  \/ \E u \in UploadIds : FinalizeFails(u)
  \/ \E src \in BagToSet(fileHashJobs) : FileHashComplete(src)
  \/ \E src \in BagToSet(fileHashJobs) : FileHashError(src)

Next == UserStep \/ SystemStep

Spec == Init /\ [][Next]_vars

\* The planner alone: calculateChunks applied to one file size and chunk size.
InitPlan ==
  /\ ManagerInit
  /\ ServerInit
  /\ PureInit
  /\ planInput \in (0..MaxPlanSize) \X (1..MaxPlanChunkSize)
  /\ planOutput = <<>>

CalculateChunks ==
  /\ planOutput = <<>>
  /\ planOutput' = <<calculateChunks(planInput[1], planInput[2])>>
  /\ UNCHANGED <<planInput, managerVars, fatalErrors, liveCancels, workerVars, serverVars, pureVars>>

NextPlan == CalculateChunks

SpecPlan == InitPlan /\ [][NextPlan]_vars

\* A clean run: the user creates one upload and starts it once; every request
\* and every worker job succeeds, and each is answered in the end.
CleanUserStep ==
  \/ \E fileSize \in 1..MaxCleanFileSize, concurrency \in 1..MaxConcurrency :
       uploads = <<>> /\ CreateUpload(fileSize, concurrency)
  \/ \E u \in UploadIds : uploads[u].status = PENDING /\ StartUpload(u)

CleanSystemStep ==
  \/ \E u \in UploadIds : InitializeOk(u)
  \/ \E job \in BagToSet(hashJobs) : HashChunkComplete(job)
  \/ \E job \in BagToSet(uploadJobs) : ChunkUploadComplete(job)
  \/ \E u \in UploadIds : FinalizeOk(u)
  \/ \E src \in BagToSet(fileHashJobs) : FileHashComplete(src)

NextClean == CleanUserStep \/ CleanSystemStep

SpecClean == Init /\ [][NextClean]_vars /\ WF_vars(CleanSystemStep)

\* Two sessions of one chunk each, started once each; chunk transfers may fail.
TwoUserStep ==
  \/ Len(uploads) < MaxSessions /\ CreateUpload(2, 1)
  \/ \E u \in UploadIds : uploads[u].status = PENDING /\ StartUpload(u)

TwoSystemStep ==
  \/ \E u \in UploadIds : InitializeOk(u)
  \/ \E job \in BagToSet(hashJobs) : HashChunkComplete(job)
  \/ \E job \in BagToSet(uploadJobs) : ChunkUploadComplete(job)
  \/ \E job \in BagToSet(uploadJobs), retryable \in BOOLEAN : ChunkUploadError(job, retryable)
  \/ \E t \in BagToSet(timers) : RetryTimerFires(t)
  \/ \E u \in UploadIds : FinalizeOk(u)

NextTwo == TwoUserStep \/ TwoSystemStep

SpecTwo == Init /\ [][NextTwo]_vars

\* The two sessions again, with chunk hashes that may fail as well.
NextTwoHash ==
  \/ TwoUserStep
  \/ TwoSystemStep
  \/ \E job \in BagToSet(hashJobs) : HashChunkError(job)

SpecTwoHash == Init /\ [][NextTwoHash]_vars

\* A clean run in which the user may also pause the upload while it is
\* uploading and resume it.
PauseUserStep ==
  \/ \E fileSize \in FileSizes, concurrency \in 1..MaxConcurrency :
       uploads = <<>> /\ CreateUpload(fileSize, concurrency)
  \/ \E u \in UploadIds : uploads[u].status = PENDING /\ StartUpload(u)
  \/ \E u \in UploadIds : uploads[u].status = UPLOADING /\ PauseUpload(u)
  \/ \E u \in UploadIds : ResumeUpload(u)

NextPause == PauseUserStep \/ CleanSystemStep

SpecPause == Init /\ [][NextPause]_vars

\* One upload of one chunk, followed fetch by fetch: every fetch of the upload
\* worker may meet any outcome; hashes and requests succeed.
RetryUserStep ==
  \/ uploads = <<>> /\ CreateUpload(2, 1)
  \/ \E u \in UploadIds : uploads[u].status = PENDING /\ StartUpload(u)

RetrySystemStep ==
  \/ \E u \in UploadIds : InitializeOk(u)
  \/ \E job \in BagToSet(hashJobs) : HashChunkComplete(job)
  \/ \E job \in BagToSet(uploadJobs), outcome \in FetchOutcomes, jitter \in Jitters :
       WorkerFetch(job, outcome, jitter)
  \/ \E t \in BagToSet(timers) : RetryTimerFires(t)
  \/ \E u \in UploadIds : FinalizeOk(u)

NextRetry == RetryUserStep \/ RetrySystemStep

SpecRetry == Init /\ [][NextRetry]_vars

\* A clean run with auto-tuning on and enough chunks in flight at once for the
\* auto-tune gate (more than 5 completed chunks) to open.
TuneUserStep ==
  \/ uploads = <<>> /\ CreateUpload(MaxTuneFileSize, MaxTuneConcurrency)
  \/ \E u \in UploadIds : uploads[u].status = PENDING /\ StartUpload(u)

NextTune == TuneUserStep \/ CleanSystemStep

SpecTune == Init /\ [][NextTune]_vars

\* One session of ten chunks, all in flight at once, started once and never
\* paused or cancelled: each chunk's transfer either succeeds or fails for
\* good, in any combination; each worker answers its jobs in the order they
\* were posted.
FirstPosted(job, jobs) == \A other \in BagToSet(jobs) : job[2] <= other[2]

OutcomeUserStep ==
  \/ uploads = <<>> /\ CreateUpload(MaxOutcomeFileSize, MaxOutcomeConcurrency)
  \/ \E u \in UploadIds : uploads[u].status = PENDING /\ StartUpload(u)

OutcomeSystemStep ==
  \/ \E u \in UploadIds : InitializeOk(u)
  \/ \E job \in BagToSet(hashJobs) : FirstPosted(job, hashJobs) /\ HashChunkComplete(job)
  \/ \E job \in BagToSet(uploadJobs) :
       FirstPosted(job, uploadJobs) /\ ChunkUploadComplete(job)
  \/ \E job \in BagToSet(uploadJobs) :
       FirstPosted(job, uploadJobs) /\ ChunkUploadError(job, FALSE)
  \/ \E u \in UploadIds : FinalizeOk(u)
  \/ \E src \in BagToSet(fileHashJobs) : FileHashComplete(src)

NextOutcome == OutcomeUserStep \/ OutcomeSystemStep

SpecOutcome == Init /\ [][NextOutcome]_vars

\* Files dropped one after the other, up to MaxSessions of them, and the hash
\* worker answering their HASH_FILE jobs in any order.
HashUserStep ==
  \E fileSize \in FileSizes, concurrency \in 1..MaxConcurrency :
    Len(uploads) < MaxSessions /\ CreateUpload(fileSize, concurrency)

HashSystemStep ==
  \/ \E src \in BagToSet(fileHashJobs) : FileHashComplete(src)
  \/ \E src \in BagToSet(fileHashJobs) : FileHashError(src)

NextHash == HashUserStep \/ HashSystemStep

SpecHash == Init /\ [][NextHash]_vars

\* The diagnostics window alone: addSample with any of the sample kinds, the
\* samples added so far kept in `added`.
DiagSamples == {[speed |-> 0, latency |-> 0], [speed |-> 8, latency |-> 100]}

DiagAddSample(sample) ==
  /\ Len(added) < MaxAdded
  /\ samples' = addSample(samples, sample.speed, sample.latency)
  /\ added' = Append(added, sample)
  /\ UNCHANGED <<uploads, initFetches, finalizeFetches, hashJobs, hashWaiters,
                 uploadJobs, timers, fileHashJobs, requests, fatalErrors, liveCancels,
                 planVars, workerVars, serverVars,
                 parts, finalizeParts, optimalInput, optimalOutput>>

NextDiag == \E sample \in DiagSamples : DiagAddSample(sample)

SpecDiag == Init /\ [][NextDiag]_vars

\* calculateOptimalChunkSize alone: one call on any input of the bounded sets.
OptimalInputs ==
  (0..MaxSpeed) \X {1, 3} \X {l \in 0..MaxLatency : l % 50 = 0} \X {0, MaxFileSize}

InitOptimal ==
  /\ ManagerInit
  /\ ServerInit
  /\ parts = <<>>
  /\ finalizeParts = <<>>
  /\ added = <<>>
  /\ optimalInput \in OptimalInputs
  /\ optimalOutput = <<>>
  /\ planInput = <<0, 1>>
  /\ planOutput = <<>>

CalculateOptimalChunkSize ==
  /\ optimalOutput = <<>>
  /\ optimalOutput' = <<calculateOptimalChunkSize(optimalInput[1], optimalInput[2],
                                                 optimalInput[3], optimalInput[4])>>
  /\ UNCHANGED <<parts, finalizeParts, added, optimalInput,
                 managerVars, fatalErrors, liveCancels, planVars, workerVars, serverVars>>

NextOptimal == CalculateOptimalChunkSize

SpecOptimal == InitOptimal /\ [][NextOptimal]_vars

\* The S3 adapter alone: the MaxParts chunks of a session complete in any
\* order, with or without an X-Part-Number header, then finalize is called.
NextParts ==
  \/ \E chunkIndex \in 0..(MaxParts - 1) :
       \/ AdapterChunkUploaded(chunkIndex, <<>>)
       \/ AdapterChunkUploaded(chunkIndex, [h \in {"X-Part-Number"} |-> chunkIndex + 1])
  \/ AdapterFinalize

SpecParts == Init /\ [][NextParts]_vars

\* The server alone: any request to the upload routes and to the S3 routes.
NextServer ==
  \/ \E body \in InitializeBodies : ServerInitialize(body)
  \/ \E body \in FinalizeBodies : ServerFinalize(body)
  \/ \E body \in AbortBodies : ServerAbort(body)
  \/ S3Initialize(1)
  \/ \E body \in AbortBodies, s3Throws \in BOOLEAN : S3Abort(body, s3Throws)
  \/ \E uploadId \in ServerIds, partNumber \in 0..2 : S3UploadPart(uploadId, partNumber)

SpecServer == Init /\ [][NextServer]_vars

\* ---------------------------------------------------------------- properties
UploadingChunks(up) == {i \in DOMAIN up.chunks : up.chunks[i].status = UPLOADING}

FinalizeRequests(u) == CopiesIn(<<"finalize", u>>, requests)

AbortRequests(u) == CopiesIn(<<"abort", u>>, requests)

\* C1: in every reachable state of a session the number of chunks whose status
\* is Uploading is at most the session's configured concurrency.
C1_UploadingWithinConcurrency ==
  \A u \in UploadIds :
    Cardinality(UploadingChunks(uploads[u])) <= uploads[u].options.concurrency

\* C2: in a clean run (initialize, every hash, every transfer and finalize
\* succeed, no pause, no cancel) a started upload eventually has every chunk
\* index in completedChunks and status Completed, whatever n and c.
C2_Started == uploads # <<>> /\ uploads[1].startTime

C2_Done ==
  /\ uploads # <<>>
  /\ uploads[1].status = COMPLETED
  /\ uploads[1].completedChunks = DOMAIN uploads[1].chunks

C2_CleanUploadCompletes == C2_Started ~> C2_Done

\* C3: for total_size > 0 and chunk_size > 0 the plan of calculateChunks has
\* exactly ceil(total_size / chunk_size) chunks indexed from 0; chunk i has
\* start = i * chunk_size, end = min(start + chunk_size, total_size),
\* size = end - start and isLast exactly when end = total_size; consecutive
\* chunks are contiguous, every byte of [0, total_size) lies in exactly one
\* chunk and the sizes sum to total_size.
C3_PlanPartitionsFile ==
  (planOutput # <<>> /\ planInput[1] > 0) =>
    LET total == planInput[1]
        chunkSize == planInput[2]
        chunks == planOutput[1]
        n == Cardinality(DOMAIN chunks)
    IN /\ DOMAIN chunks = 0..(n - 1)
       /\ (n - 1) * chunkSize < total
       /\ total <= n * chunkSize
       /\ \A i \in DOMAIN chunks :
            /\ chunks[i].chunkIndex = i
            /\ chunks[i].start = i * chunkSize
            /\ chunks[i].end = IF chunks[i].start + chunkSize < total
                               THEN chunks[i].start + chunkSize ELSE total
            /\ chunks[i].size = chunks[i].end - chunks[i].start
            /\ chunks[i].isLast <=> (chunks[i].end = total)
       /\ \A i \in DOMAIN chunks :
            (i + 1) \in DOMAIN chunks => chunks[i].end = chunks[i + 1].start
       /\ \A byte \in 0..(total - 1) :
            Cardinality({i \in DOMAIN chunks :
                           chunks[i].start <= byte /\ byte < chunks[i].end}) = 1
       /\ \A i \in DOMAIN chunks : chunks[i].start < chunks[i].end /\ chunks[i].end <= total
       /\ SumOver([i \in DOMAIN chunks |-> chunks[i].size], DOMAIN chunks) = total

\* A file of 11 units planned in chunks of 4: three chunks, the last one short.
C3_ShortLastChunkPlanned ==
  /\ planInput = <<11, 4>>
  /\ planOutput # <<>>
  /\ Cardinality(DOMAIN planOutput[1]) = 3
  /\ planOutput[1][2].size = 3
  /\ planOutput[1][2].isLast

\* C4: in every reachable state of a session no chunk index is in both
\* completedChunks and failedChunks.
C4_CompletedFailedDisjoint ==
  \A u \in UploadIds : uploads[u].completedChunks \cap uploads[u].failedChunks = {}

\* C5: whenever a session's status is Completed, every chunk index of its plan
\* is in completedChunks and its finalUrl is set.
C5_CompletedHasAllChunksAndUrl ==
  \A u \in UploadIds :
    uploads[u].status = COMPLETED =>
      /\ uploads[u].completedChunks = DOMAIN uploads[u].chunks
      /\ uploads[u].finalUrl # "undefined"

\* C6: whenever a session's status is Failed, its error is set and either a
\* non-retryable error occurred (a non-retryable chunk error, a failed
\* initialize or a failed finalize) or the number of failed chunks is strictly
\* greater than ceil(0.1 * n_chunks).
C6_FailedOnlyOverThreshold ==
  \A u \in UploadIds :
    uploads[u].status = FAILED =>
      /\ uploads[u].error # "null"
      /\ \/ u \in fatalErrors
         \/ Cardinality(uploads[u].failedChunks) > Ceil(ChunkCount(uploads[u]), 10)

\* C7: the session's progress equals 100 * (sum of the sizes of the chunks in
\* completedChunks) / total_size, lies in [0, 100], and is 100 exactly when all
\* chunks are completed.
C7_ProgressIsCompletedBytes ==
  \A u \in UploadIds :
    LET up == uploads[u]
        num == up.progress[1]
        den == up.progress[2]
        completedBytes ==
          SumOver([i \in DOMAIN up.chunks |-> up.chunks[i].size], up.completedChunks)
    IN /\ den > 0
       /\ num * up.size = 100 * completedBytes * den
       /\ 0 <= num
       /\ num <= 100 * den
       /\ (num = 100 * den) <=> (up.completedChunks = DOMAIN up.chunks)

\* The first of two chunks has completed: 2 of 3 units, progress 200/3.
C7_FirstOfTwoChunksCompleted ==
  \E u \in UploadIds :
    /\ uploads[u].size = 3
    /\ uploads[u].completedChunks = {0}
    /\ uploads[u].chunks[0].status = COMPLETED
    /\ uploads[u].progress = <<200, 3>>

\* C8: once cancelUpload has been applied to a non-terminal session, no worker
\* reply, timer or request answer moves its status away from Cancelled or
\* sends a finalize request for it.
C8_CancelledStaysCancelled ==
  [][\A u \in UploadIds :
       (u \in liveCancels /\ uploads[u].status = CANCELLED /\ SystemStep) =>
         /\ uploads'[u].status = CANCELLED
         /\ FinalizeRequests(u)' = FinalizeRequests(u)]_vars

\* C9: cancelUpload on a session whose status is Completed, Failed or
\* Cancelled changes nothing of the manager's state and sends no abort.
C9_CancelOnTerminalIsNoOp ==
  [][\A u \in UploadIds :
       (uploads[u].status \in Terminal /\ CancelUpload(u)) =>
         UNCHANGED managerVars]_vars

\* C10: cancelUpload on a session that is Pending, Uploading or Paused sets
\* its status to Cancelled and sends exactly one abort for that session.
C10_CancelAbortsOnce ==
  [][\A u \in UploadIds :
       (uploads[u].status \in NonTerminal /\ CancelUpload(u)) =>
         /\ uploads'[u].status = CANCELLED
         /\ AbortRequests(u)' = AbortRequests(u) + 1]_vars

\* The uploadChunk calls of an upload that are under way: waiting for the chunk
\* hash or handed to the upload worker.
AttemptsUnderWay(u) ==
  LET waiting == {w \in BagToSet(hashWaiters) : w[1] = u}
      posted == {j \in BagToSet(uploadJobs) : j[1] = u}
  IN SumOver([w \in waiting |-> CopiesIn(w, hashWaiters)], waiting)
       + SumOver([j \in posted |-> CopiesIn(j, uploadJobs)], posted)

\* C11: while a session's status is Paused or Cancelled no new chunk transfer
\* attempt is started for it, not even by a retry timer set before the pause
\* or cancel: the attempts under way can only finish.
C11_NoDispatchWhilePausedOrCancelled ==
  [][\A u \in UploadIds :
       (uploads[u].status \in {PAUSED, CANCELLED}
          /\ uploads'[u].status \in {PAUSED, CANCELLED}) =>
         AttemptsUnderWay(u)' <= AttemptsUnderWay(u)]_vars

\* C12: startUpload on a session whose status is Uploading, Paused, Completed
\* or Cancelled changes nothing: the status stays, no initialize request is
\* sent and no chunk is dispatched.
C12_StartOnlyFromPendingOrFailed ==
  [][\A u \in UploadIds :
       (uploads[u].status \in {UPLOADING, PAUSED, COMPLETED, CANCELLED} /\ StartUpload(u)) =>
         UNCHANGED managerVars]_vars

\* C13: pauseUpload on a session whose status is not Uploading leaves the
\* status unchanged.
C13_PauseOnlyFromUploading ==
  [][\A u \in UploadIds :
       (uploads[u].status # UPLOADING /\ PauseUpload(u)) =>
         uploads'[u].status = uploads[u].status]_vars

\* C14: restarting a session whose status is Failed (startUpload, or the
\* retry button's reset followed by startUpload) leaves failedChunks empty,
\* every chunk's attempt counter 0, every completed chunk still in
\* completedChunks and the status Uploading, and makes the previously failed
\* chunks pending again, which is what the dispatch after initialize selects.
C14_RestartFromFailedResets ==
  [][\A u \in UploadIds :
       (uploads[u].status = FAILED /\ (StartUpload(u) \/ RetryUpload(u))) =>
         /\ uploads'[u].failedChunks = {}
         /\ \A i \in DOMAIN uploads'[u].chunks : uploads'[u].chunks[i].retryCount = 0
         /\ uploads[u].completedChunks \subseteq uploads'[u].completedChunks
         /\ uploads'[u].status = UPLOADING
         /\ \A i \in uploads[u].failedChunks : uploads'[u].chunks[i].status = PENDING]_vars

\* No request, worker job or timer is outstanding.
Quiescent ==
  /\ initFetches = EmptyBag
  /\ finalizeFetches = EmptyBag
  /\ hashJobs = EmptyBag
  /\ uploadJobs = EmptyBag
  /\ timers = EmptyBag

\* The completed chunks at the end of the clean run without a pause: the one
\* call of uploadChunksWithConcurrency dispatches the first `concurrency`
\* chunks of the plan and nothing dispatches the others.
NoPauseCompleted(up) == 0..(Min(ChunkCount(up), up.options.concurrency) - 1)

\* The clean run without a pause ends with NoPauseCompleted (checked under SpecClean).
NoPauseRunEnds ==
  \A u \in UploadIds :
    (Quiescent /\ uploads[u].startTime) =>
      uploads[u].completedChunks = NoPauseCompleted(uploads[u])

\* C15: with the same file, parameters and transfer outcomes (all succeed), a
\* run in which the user pauses the uploading session and later resumes it
\* ends with the same set of completed chunk indices as the run with no pause.
C15_PauseResumeSameCompleted ==
  \A u \in UploadIds :
    (Quiescent /\ uploads[u].startTime /\ uploads[u].status # PAUSED) =>
      uploads[u].completedChunks = NoPauseCompleted(uploads[u])

\* C16: no chunk is sent to the provider more than 5 times in all, counting
\* the PUTs of the upload worker's loop over every dispatch of the chunk.
C16_AtMostFivePuts ==
  \A key \in DOMAIN transfers : transfers[key].puts <= 5

\* The outcomes after which a chunk is to be tried again: no response, HTTP
\* status >= 500, 408, 429, and 308 (incomplete).
RetryableOutcome(outcome) ==
  \/ outcome.status = 0
  \/ outcome.status >= 500
  \/ outcome.status \in {408, 429, 308}

\* C17: after a transfer attempt whose outcome is a transport failure, a
\* status >= 500, 408, 429 or 308, the chunk is retried (a next attempt is
\* set and the chunk is not Failed) as long as fewer than 5 attempts were
\* made; after any other 4xx the chunk is Failed and no attempt follows.
C17_RetriedExactlyWhenRetryable ==
  \A key \in DOMAIN transfers :
    LET last == transfers[key]
        chunk == uploads[key[1]].chunks[key[2]]
    IN /\ (RetryableOutcome(last.outcome) /\ last.puts < 5) =>
            (last.delay # NoDelay /\ chunk.status # FAILED)
       /\ (last.outcome.status \div 100 = 4 /\ ~RetryableOutcome(last.outcome)) =>
            (last.delay = NoDelay /\ chunk.status = FAILED)

\* C18: the delay waited after attempt number a = 0, 1, 2, ... of a chunk,
\* before its next attempt, lies in [min(30000, 1000 * 2^a), min(30000, 1100 * 2^a)] ms.
C18_BackoffWithinBounds ==
  \A key \in DOMAIN transfers :
    LET a == transfers[key].puts - 1
    IN transfers[key].delay # NoDelay =>
         /\ Min(30000, 1000 * Pow2(a)) <= transfers[key].delay
         /\ transfers[key].delay <= Min(30000, 1100 * Pow2(a))

\* C19: when a PUT of a chunk [S, E) is answered 308 with Range: bytes=0-N,
\* the next byte is N + 1 and the next attempt for the chunk sends only
\* [N + 1, E); the chunk is Completed when that attempt gets a 2xx, and a 308
\* does not mark the chunk Failed.
C19_ResumeSendsTail ==
  [][/\ \A key \in DOMAIN transfers :
          LET before == transfers[key]
              after == transfers'[key]
              chunk == uploads'[key[1]].chunks[key[2]]
          IN (before.outcome.status = 308 /\ after.puts = before.puts + 1) =>
               /\ after.range =
                    <<nextByte(RangeHeader(before.outcome), chunk.start), chunk.end>>
               /\ ok(after.outcome) => chunk.status = COMPLETED
     /\ \A key \in DOMAIN transfers' :
          transfers'[key].outcome.status = 308 =>
            uploads'[key[1]].chunks[key[2]].status # FAILED]_vars

\* C20: for every S3 session that is Completed, the finalize request sent for
\* it carries a parts list whose PartNumbers are 1, 2, ..., n_chunks in
\* strictly increasing order.
C20_FinalizePartsNumbered ==
  \A u \in UploadIds :
    (uploads[u].status = COMPLETED /\ uploads[u].storageType = S3
       /\ FinalizeRequests(u) > 0) =>
      LET body == finalizeRequestBody(uploads[u])
      IN /\ "parts" \in DOMAIN body
         /\ DOMAIN body.parts = 1..ChunkCount(uploads[u])
         /\ \A k \in DOMAIN body.parts : body.parts[k].PartNumber = k

\* C21: abort is idempotent: an abort for an uploadId the backend has already
\* aborted, or does not know, is answered with success (S3Adapter.abortUpload
\* resolves), and it changes nothing of what the first abort left.
C21_AbortIdempotent ==
  [][/\ \A body \in AbortBodies, s3Throws \in BOOLEAN :
          ("uploadId" \in DOMAIN body /\ body.uploadId \notin DOMAIN multipartUploads
             /\ S3Abort(body, s3Throws)) =>
            (abortUpload(response') = "resolved" /\ UNCHANGED multipartUploads)
     /\ \A body \in AbortBodies :
          ("uploadId" \in DOMAIN body
             /\ (body.uploadId \in 1..Len(uploadSessions) =>
                   uploadSessions[body.uploadId].status = "aborted")
             /\ ServerAbort(body)) =>
            (ok(response') /\ UNCHANGED uploadSessions)]_vars

\* C22: a failing initialize call is attempted again (up to 3 attempts, with
\* backoff) before the session is declared Failed: the first initialize
\* failure of a session that met no fatal error before does not make it Failed.
C22_InitializeRetried ==
  [][\A u \in UploadIds :
       (u \notin fatalErrors /\ InitializeFails(u)) =>
         uploads'[u].status # FAILED]_vars

\* C23: when the initialize request fails (network error or non-OK response)
\* the session's status is Failed with error set, startUpload dispatches no
\* chunk and no chunk changes: the chunks that were Pending stay Pending.
C23_InitializeFailureStopsStart ==
  [][\A u \in UploadIds :
       InitializeFails(u) =>
         /\ uploads'[u].status = FAILED
         /\ uploads'[u].error # "null"
         /\ AttemptsUnderWay(u)' = AttemptsUnderWay(u)
         /\ UNCHANGED <<hashJobs, hashWaiters, uploadJobs, timers>>
         /\ \A i \in DOMAIN uploads[u].chunks :
              uploads'[u].chunks[i] = uploads[u].chunks[i]]_vars

\* A started upload whose initialize request failed: Failed, with the error,
\* every chunk Pending and nothing under way.
C23_FailedBeforeAnyDispatch ==
  \E u \in UploadIds :
    /\ uploads[u].status = FAILED
    /\ uploads[u].error = "Failed to initialize upload"
    /\ uploads[u].startTime
    /\ uploads[u].uploadId = NoUploadId
    /\ \A i \in DOMAIN uploads[u].chunks : uploads[u].chunks[i].status = PENDING
    /\ AttemptsUnderWay(u) = 0
    /\ initFetches = EmptyBag

\* C24: when all chunks are completed and the finalize call fails, finalize is
\* attempted once more; the session becomes Failed by a failed finalize only
\* after at least two finalize requests, and its status becomes Completed
\* only when a finalize call succeeds.
C24_FinalizeRetriedOnce ==
  [][\A u \in UploadIds :
       /\ (FinalizeFails(u) /\ uploads[u].status # FAILED /\ uploads'[u].status = FAILED) =>
            FinalizeRequests(u) >= 2
       /\ (uploads[u].status # COMPLETED /\ uploads'[u].status = COMPLETED) =>
            FinalizeOk(u)]_vars

\* C25: for an empty file (total_size = 0) the plan consists of exactly one
\* chunk, with start 0, size 0 and isLast = true.
C25_EmptyFileOneChunk ==
  (planOutput # <<>> /\ planInput[1] = 0) =>
    /\ DOMAIN planOutput[1] = {0}
    /\ planOutput[1][0].start = 0
    /\ planOutput[1][0].size = 0
    /\ planOutput[1][0].isLast

\* C26: POST /api/upload/initialize with a filename, a fileSize of at most
\* 10 GiB, a chunkCount of at most 10000 (and at least one chunk) and a
\* supported storageType answers 200 with an uploadId and exactly chunkCount
\* chunkUrls; with a required field absent, a fileSize over 10 GiB or a
\* chunkCount over 10000 it answers 400 with an error.
C26_InitializeValidates ==
  [][\A body \in InitializeBodies :
       ServerInitialize(body) =>
         LET present == DOMAIN body = {"filename", "fileSize", "chunkCount", "storageType"}
         IN /\ (/\ present
                /\ body.filename # ""
                /\ body.fileSize <= maxFileSize
                /\ body.chunkCount >= 1 /\ body.chunkCount <= maxChunkCount
                /\ body.storageType \in STORAGE_TYPES) =>
                 /\ response'.status = 200
                 /\ "uploadId" \in DOMAIN response'.body
                 /\ Len(response'.body.chunkUrls) = body.chunkCount
            /\ (\/ ~present
                \/ body.fileSize > maxFileSize
                \/ body.chunkCount > maxChunkCount) =>
                 /\ response'.status = 400
                 /\ "error" \in DOMAIN response'.body]_vars

\* C27: POST /api/upload/finalize with the uploadId a successful initialize
\* returned and that session's storageType answers 200 with success = true
\* and a finalUrl; with an uploadId that was never issued it answers 404
\* with an error.
C27_FinalizeAfterInitialize ==
  [][\A body \in FinalizeBodies :
       (DOMAIN body = {"uploadId", "storageType"} /\ ServerFinalize(body)) =>
         IF body.uploadId \in 1..Len(uploadSessions)
         THEN (/\ uploadSessions[body.uploadId].status = "initialized"
               /\ uploadSessions[body.uploadId].storageType = body.storageType
               /\ body.storageType \in STORAGE_TYPES) =>
                /\ response'.status = 200
                /\ "success" \in DOMAIN response'.body
                /\ response'.body.success
                /\ "finalUrl" \in DOMAIN response'.body
         ELSE /\ response'.status = 404
              /\ "error" \in DOMAIN response'.body]_vars

C30_EventsStayInTheirSession ==
  [][/\ \A job \in BagToSet(uploadJobs) :
          (ChunkUploadComplete(job) \/ \E retryable \in BOOLEAN : ChunkUploadError(job, retryable)) =>
            \A other \in UploadIds \ {job[1]} : uploads'[other] = uploads[other]
     /\ \A job \in BagToSet(hashJobs) :
          HashChunkComplete(job) =>
            \A other \in UploadIds \ {job[1]} : uploads'[other] = uploads[other]]_vars

\* C31: the whole-file hash computed for session S is stored in S and in no
\* other session, for any order in which the file-hash jobs of concurrently
\* created sessions complete.
C31_FileHashInItsSession ==
  \A u \in UploadIds : uploads[u].fileHash \in {NoHash, <<u>>}

\* Something is outstanding that will take chunk i of upload u further: a hash
\* wait, an UPLOAD_CHUNK job or a retry timer.
AttemptPending(u, i) ==
  \/ BagIn(<<u, i>>, hashWaiters)
  \/ \E job \in BagToSet(uploadJobs) : job[1] = u /\ job[2] = i
  \/ BagIn(<<u, i>>, timers)

\* C32: a failure of a chunk's hash computation is handled as a retryable
\* chunk error of that chunk: its attempt counter goes up by one, a retry is
\* scheduled while attempts remain, once they are exhausted that chunk (and
\* no other) is marked Failed, and the chunk is never left in status
\* Uploading with nothing outstanding for it.
C32_HashFailureIsRetryableChunkError ==
  [][\A job \in BagToSet(hashJobs) :
       (BagIn(job, hashWaiters) /\ HashChunkError(job)) =>
         LET u == job[1]
             i == job[2]
             before == uploads[u].chunks[i]
             after == uploads'[u].chunks[i]
         IN /\ after.retryCount = before.retryCount + 1
            /\ IF after.retryCount < MaxChunkRetries
               THEN CopiesIn(job, timers') = CopiesIn(job, timers) + 1 /\ after.status # FAILED
               ELSE after.status = FAILED
            /\ \A v \in UploadIds :
                 \A k \in DOMAIN uploads[v].chunks :
                   <<v, k>> # job => uploads'[v].chunks[k] = uploads[v].chunks[k]
            /\ after.status = UPLOADING => AttemptPending(u, i)']_vars

\* C33: every chunk URL that initialize issues for an S3 session addresses a
\* part number in 1..chunkCount, the URL of chunk index i addressing part
\* i + 1, so that the part-upload route does not refuse the PUT of any chunk
\* for its part number, chunk index 0 included.
C33_ChunkUrlsAddressParts ==
  (/\ response.route = "/api/upload/initialize"
   /\ response.status = 200
   /\ response.body.chunkUrls[1][1] = S3) =>
    \A k \in DOMAIN response.body.chunkUrls :
      LET url == response.body.chunkUrls[k]
      IN /\ url[3] = k
         /\ uploadPartStatus(url[2], url[3]) # 400

\* C34: for any order in which the chunks of an S3 session complete, the part
\* submitted at finalize with PartNumber k carries the ETag that the provider
\* returned for chunk index k - 1.
C34_PartNumberMatchesETag ==
  finalizeParts # <<>> =>
    \A index \in DOMAIN finalizeParts[1] :
      finalizeParts[1][index].ETag.tag = finalizeParts[1][index].PartNumber - 1

\* C35: after any sequence of addSample calls the window holds at most
\* maxSamples samples, exactly the most recent min(k, maxSamples) of the k
\* added, in insertion order; both means are 0 when the window is empty.
C35_WindowIsMostRecent ==
  LET k == Len(added)
      n == Min(k, maxSamples)
  IN /\ Len(samples) <= maxSamples
     /\ samples = SubSeq(added, k - n + 1, k)
     /\ samples = <<>> =>
          /\ getAverageSpeed(samples).num = 0
          /\ getAverageLatency(samples).num = 0

\* More than maxSamples samples were added and the oldest ones are gone.
C35_OldestEvicted ==
  /\ Len(added) > maxSamples
  /\ Len(samples) = maxSamples
  /\ samples # SubSeq(added, 1, maxSamples)
  /\ samples[maxSamples] = added[Len(added)]

\* C36: for every content of the diagnostics window (any non-negative
\* latencies) getNetworkStability() lies in [0, 1]: it is 0 when the mean
\* latency is 0 and is not negative when the deviation exceeds the mean.
C36_StabilityInUnitInterval == StabilityInUnitInterval(samples)

\* C37: for every network speed >= 0, latency >= 0 and file size,
\* calculateOptimalChunkSize returns a power of two between 256 KiB and 16 MiB
\* (one of CHUNK_SIZE_OPTIONS' values).
C37_OptimalSizeIsPowerOfTwoInRange ==
  optimalOutput # <<>> => optimalOutput[1] \in CHUNK_SIZE_OPTIONS

\* A call whose unclamped size, 8 MiB * 5, lies above the 16 MiB maximum.
C37_ClampedToMaxSize ==
  /\ optimalOutput = <<128>>
  /\ optimalInput[1] >= 64 * optimalInput[2]
  /\ optimalInput[3] >= 400

\* C38: in every reachable state of a session a chunk's status is Completed
\* exactly when its index is in completedChunks and Failed exactly when its
\* index is in failedChunks.
C38_ChunkStatusMatchesSets ==
  \A u \in UploadIds :
    \A i \in DOMAIN uploads[u].chunks :
      /\ uploads[u].chunks[i].status = COMPLETED <=> i \in uploads[u].completedChunks
      /\ uploads[u].chunks[i].status = FAILED <=> i \in uploads[u].failedChunks

\* C39: the finalize request of a session is issued only in a state where
\* every chunk of the plan is in completedChunks, and at most once per run of
\* the session: never while the session is already Completed or while an
\* earlier finalize request of the run is still unanswered.
C39_FinalizeOnceWhenComplete ==
  [][\A u \in UploadIds :
       FinalizeRequests(u)' > FinalizeRequests(u) =>
         /\ uploads'[u].completedChunks = DOMAIN uploads'[u].chunks
         /\ uploads[u].status # COMPLETED
         /\ CopiesIn(u, finalizeFetches) = 0]_vars

\* C40: a started session that the user never pauses or cancels eventually
\* leaves the Uploading status (it becomes Completed or Failed) for every
\* combination of per-chunk transfer outcomes, including runs in which some
\* chunks failed for good but no more of them than the failure threshold.
\* Once every request and worker job of the run is answered and no timer is
\* left, nothing can change the session any more, so the session must have
\* left Uploading by then.
C40_StartedLeavesUploading ==
  \A u \in UploadIds :
    (uploads[u].startTime /\ Quiescent) => uploads[u].status \in {COMPLETED, FAILED}

====
